---- MODULE Spec2Model ----
(***************************************************************************)
(* State-machine model of the ChatInterface React component (forecast      *)
(* revision, src/unnamed/part_000): its useState cells, the two async      *)
(* handlers handleFileUpload and handleSend split at their awaits, and the *)
(* requests in flight between the two halves.  Two helpers of the render,  *)
(* cleanAssistantText and DataTable, are pure functions: each has a        *)
(* specification of its own that applies it to a bounded set of inputs.    *)
(*                                                                         *)
(* JavaScript values that come from the backend are modelled as tagged     *)
(* records so that truthiness, `||`, `?.` and Array.isArray are computed   *)
(* as the code computes them.  Message ids (Date.now() + Math.random())    *)
(* are React keys that no handler reads; they are left out of the records. *)
(***************************************************************************)
EXTENDS Integers, Sequences, FiniteSets, TLC

VARIABLES
    messages,     \* useState: the message log
    input,        \* useState: the chat text field
    isLoading,    \* useState
    datasetId,    \* useState: a JS value, null until an upload stores one
    fileName,     \* useState: a JS value
    uploadError,  \* useState: banner text of the upload flow
    chatError,    \* useState: banner text of the chat flow
    pickerValue,  \* e.target.value of the <input type="file">
    pending,      \* fetch() calls awaiting their response, in issue order
    probe,        \* the value handed to a render helper studied on its own
    shown         \* <<what the helper returned>>, <<>> before it is called

\* the component's own state
cells == <<messages, input, isLoading, datasetId, fileName, uploadError,
           chatError, pickerValue, pending>>

vars == <<cells, probe, shown>>

---------------------------------------------------------------------------
(* Bounds of the model *)

\* longest message log explored when the user acts through the controls
MaxMessages == 7
\* longest message log explored when events are dispatched directly
MaxDispatchMessages == 6
\* most fetches in flight at once that the model follows
MaxPending == 2

---------------------------------------------------------------------------
(* JavaScript values *)

Undefined == [t |-> "undefined"]
Null == [t |-> "null"]
Str(s) == [t |-> "string", s |-> s]
Num(n) == [t |-> "number", n |-> n]
Bool(b) == [t |-> "boolean", b |-> b]
\* a: the sequence of elements
Arr(a) == [t |-> "array", a |-> a]
\* e: the sequence of [k, v] entries in insertion order
Obj(e) == [t |-> "object", e |-> e]

\* ToBoolean, as applied by `!x`, `x || y`, `x ? :` and Boolean(x)
Truthy(v) ==
    CASE v.t = "undefined" -> FALSE
      [] v.t = "null" -> FALSE
      [] v.t = "string" -> v.s # ""
      [] v.t = "number" -> v.n # 0
      [] v.t = "boolean" -> v.b
      [] OTHER -> TRUE

\* a || b
Or(a, b) == IF Truthy(a) THEN a ELSE b

\* whether `x.key` can be evaluated without a TypeError
CanRead(x) == x.t \notin {"undefined", "null"}

\* x.key for a readable x (x?.key for any x): undefined unless x is an
\* object that has the key
Get(x, key) ==
    IF x.t = "object" /\ \E i \in 1..Len(x.e) : x.e[i].k = key
    THEN x.e[CHOOSE i \in 1..Len(x.e) : x.e[i].k = key].v
    ELSE Undefined

IsArray(v) == v.t = "array"

RECURSIVE Join(_, _)
\* Array.prototype.join over a sequence of strings
Join(strs, sep) ==
    IF Len(strs) = 0 THEN ""
    ELSE IF Len(strs) = 1 THEN strs[1]
    ELSE strs[1] \o sep \o Join(Tail(strs), sep)

RECURSIVE ToStr(_)
\* String(v), also the conversion of `${v}` and of new Error(v).message
ToStr(v) ==
    CASE v.t = "undefined" -> "undefined"
      [] v.t = "null" -> "null"
      [] v.t = "string" -> v.s
      [] v.t = "number" -> ToString(v.n)
      [] v.t = "boolean" -> (IF v.b THEN "true" ELSE "false")
      [] v.t = "array" ->
            Join([i \in 1..Len(v.a) |->
                    IF CanRead(v.a[i]) THEN ToStr(v.a[i]) ELSE ""], ",")
      [] OTHER -> "[object Object]"

Whitespace == {" ", "\n", "\t"}

RECURSIVE TrimStart(_)
TrimStart(s) ==
    IF Len(s) > 0 /\ SubSeq(s, 1, 1) \in Whitespace
    THEN TrimStart(SubSeq(s, 2, Len(s)))
    ELSE s

RECURSIVE TrimEnd(_)
TrimEnd(s) ==
    IF Len(s) > 0 /\ SubSeq(s, Len(s), Len(s)) \in Whitespace
    THEN TrimEnd(SubSeq(s, 1, Len(s) - 1))
    ELSE s

\* String.prototype.trim
Trim(s) == TrimEnd(TrimStart(s))

RECURSIVE Quote(_)
\* the escaping JSON.stringify applies inside a string literal
Quote(s) ==
    IF Len(s) = 0 THEN ""
    ELSE LET c == SubSeq(s, 1, 1)
             rest == Quote(SubSeq(s, 2, Len(s)))
         IN  CASE c = "\"" -> "\\\"" \o rest
               [] c = "\\" -> "\\\\" \o rest
               [] c = "\n" -> "\\n" \o rest
               [] c = "\t" -> "\\t" \o rest
               [] OTHER -> c \o rest

\* the entries JSON.stringify keeps: it drops keys whose value is undefined
Defined(entries) == SelectSeq(entries, LAMBDA en : en.v.t # "undefined")

RECURSIVE Stringify(_, _)
\* JSON.stringify(v, null, 2) of a defined v, at the given indentation
Stringify(v, indent) ==
    LET inner == indent \o "  " IN
    CASE v.t = "string" -> "\"" \o Quote(v.s) \o "\""
      [] v.t = "number" -> ToString(v.n)
      [] v.t = "boolean" -> (IF v.b THEN "true" ELSE "false")
      [] v.t = "array" ->
            IF Len(v.a) = 0 THEN "[]"
            ELSE "[\n"
                 \o Join([i \in 1..Len(v.a) |->
                            inner \o Stringify(v.a[i], inner)], ",\n")
                 \o "\n" \o indent \o "]"
      [] v.t = "object" ->
            LET kept == Defined(v.e) IN
            IF Len(kept) = 0 THEN "{}"
            ELSE "{\n"
                 \o Join([i \in 1..Len(kept) |->
                            inner \o "\"" \o Quote(kept[i].k) \o "\": "
                            \o Stringify(kept[i].v, inner)], ",\n")
                 \o "\n" \o indent \o "}"
      [] OTHER -> "null"

---------------------------------------------------------------------------
(* The message log *)

Greeting == [sender |-> "bot", text |-> "Hello! Upload a CSV file to begin."]

\* setMessages(prev => [...prev, {text, sender: 'bot', isError}])
addBotMessage(prev, text, isError) ==
    Append(prev, [sender |-> "bot", text |-> text, isError |-> isError])

\* addBotPreviewMessage storing headRows without the Array.isArray test
addBotPreviewMessage_NoArrayTest(prev, filename, dataset_id, headRows) ==
    Append(prev, [sender |-> "bot", isError |-> FALSE,
                  kind |-> "upload_preview",
                  filename |-> filename,
                  dataset_id |-> dataset_id,
                  headRows |-> headRows])

addBotPreviewMessage(prev, filename, dataset_id, headRows) ==
    Append(prev, [sender |-> "bot", isError |-> FALSE,
                  kind |-> "upload_preview",
                  filename |-> filename,
                  dataset_id |-> dataset_id,
                  headRows |-> IF IsArray(headRows) THEN headRows ELSE Arr(<<>>)])

addBotForecastMessage(prev, assistantText, results, isError) ==
    Append(prev, [sender |-> "bot", isError |-> Truthy(isError),
                  kind |-> "forecast",
                  assistantText |-> Or(assistantText, Str("")),
                  results |-> Or(results, Null)])

\* addUserMessage putting the entry in front: [msg, ...prev]
addUserMessage_Prepends(prev, text) ==
    <<[sender |-> "user", text |-> text]>> \o prev

addUserMessage(prev, text) ==
    Append(prev, [sender |-> "user", text |-> text])

---------------------------------------------------------------------------
(* What fetch() can come back with *)

\* fetch() rejects: no HTTP response at all
Rejected(message) == [kind |-> "rejected", message |-> message]
\* an HTTP response; parses: whether response.json() resolves, then to json
Http(status, parses, json) ==
    [kind |-> "response", status |-> status, parses |-> parses, json |-> json]

\* Response.ok
ResponseOk(r) == r.status \in 200..299

E(k, v) == [k |-> k, v |-> v]

Row(n) == Obj(<<E("a", Num(n))>>)

NetworkError == Rejected("Failed to fetch")
ServerError == Http(500, FALSE, Undefined)
NotJson == Http(200, FALSE, Undefined)
JsonSyntaxError == "Unexpected token < in JSON at position 0"
NullOkTypeError == "Cannot read properties of null (reading 'ok')"

\* bodies of POST /upload: the documented shape with each optional field
\* present and absent, plus the off-contract values the handler tests for
UploadBodies ==
    { Obj(<<E("ok", Bool(TRUE)), E("dataset_id", Str("d1")),
            E("filename", Str("x.csv")),
            E("preview", Obj(<<E("head", Arr(<<Row(1)>>))>>))>>),
      Obj(<<E("ok", Bool(TRUE)), E("dataset_id", Str("d2"))>>),
      Obj(<<E("ok", Bool(TRUE)), E("dataset_id", Str("d2")),
            E("filename", Str("")),
            E("preview", Obj(<<E("head", Str("n/a"))>>))>>),
      Obj(<<E("ok", Bool(TRUE)), E("filename", Str("x.csv"))>>),
      Obj(<<E("ok", Bool(FALSE)), E("dataset_id", Str("d9")),
            E("filename", Str("y.csv")), E("error", Str("bad csv"))>>),
      Obj(<<E("ok", Bool(FALSE))>>),
      Null }

UploadResponses ==
    {NetworkError, ServerError, NotJson}
        \cup {Http(200, TRUE, b) : b \in UploadBodies}

ForecastRows == Arr(<<Obj(<<E("ds", Str("2024-01-01")), E("yhat", Num(7))>>)>>)

\* bodies of POST /chat
ChatBodies ==
    { Obj(<<E("ok", Bool(TRUE)),
            E("assistant_message", Str("Plan ready.\nForecast (head): 7")),
            E("results", Obj(<<E("forecast_head", ForecastRows),
                               E("forecast_tail", ForecastRows)>>))>>),
      Obj(<<E("ok", Bool(TRUE)),
            E("results", Obj(<<E("forecast_head", ForecastRows)>>))>>),
      Obj(<<E("ok", Bool(TRUE)), E("reply", Str("hello")),
            E("results", Obj(<<E("forecast_tail", Arr(<<>>))>>)),
            E("error", Str("partial"))>>),
      Obj(<<E("ok", Bool(TRUE)), E("message", Str("note")),
            E("results", Obj(<<E("forecast_head", Str("n/a"))>>))>>),
      Obj(<<E("ok", Bool(TRUE)), E("reply", Str("second")),
            E("assistant_message", Str("first"))>>),
      Obj(<<E("ok", Bool(TRUE)), E("message", Str("third")),
            E("reply", Str("second")), E("assistant_message", Str("")),
            E("error", Null)>>),
      Obj(<<E("ok", Bool(TRUE)), E("message", Str(" ")),
            E("error", Str("no model"))>>),
      Obj(<<E("ok", Bool(TRUE))>>),
      Obj(<<E("ok", Bool(FALSE)), E("error", Str("no model")),
            E("results", Obj(<<E("forecast_head", ForecastRows)>>))>>),
      Obj(<<E("ok", Bool(FALSE))>>),
      Null }

ChatResponses ==
    {NetworkError, ServerError, NotJson}
        \cup {Http(200, TRUE, b) : b \in ChatBodies}

\* what the user can pick: no file (the change event of a cancelled dialog)
\* or a file, by name
NoFile == ""
Files == {"a.csv"}

\* what the text field can hold
InputTexts == {"", "  ", " hi "}

---------------------------------------------------------------------------
(* State after the component mounts *)

Mounted ==
    /\ messages = <<Greeting>>
    /\ input = ""
    /\ isLoading = FALSE
    /\ datasetId = Null
    /\ fileName = Str("")
    /\ uploadError = ""
    /\ chatError = ""
    /\ pickerValue = ""
    /\ pending = <<>>

\* no render helper is under study
Init ==
    /\ Mounted
    /\ probe = Null
    /\ shown = <<>>

---------------------------------------------------------------------------
(* The outcome of a try block: completed with a value, or threw *)

Returned(value) == [threw |-> FALSE, value |-> value, message |-> ""]
Threw(message) == [threw |-> TRUE, value |-> Undefined, message |-> message]

\* err?.message || fallback
ErrMessage(message, fallback) == IF message # "" THEN message ELSE fallback

RemoveAt(seq, i) == SubSeq(seq, 1, i - 1) \o SubSeq(seq, i + 1, Len(seq))

---------------------------------------------------------------------------
(* handleFileUpload *)

UploadRequest(file) == [url |-> "/upload", body |-> [file |-> file]]

\* up to the await of fetch('/upload')
handleFileUpload(file) ==
    IF file = NoFile
    THEN UNCHANGED <<messages, input, isLoading, datasetId, fileName,
                     uploadError, chatError, pending>>
    ELSE /\ uploadError' = ""
         /\ chatError' = ""
         /\ isLoading' = TRUE
         /\ pending' = Append(pending, UploadRequest(file))
         /\ UNCHANGED <<messages, input, datasetId, fileName>>

\* uploadTry without the `if (!data.ok) throw`
uploadTry_IgnoresOkFalse(r) ==
    IF r.kind = "rejected" THEN Threw(r.message)
    ELSE IF ~ResponseOk(r)
    THEN Threw("Upload failed: " \o ToString(r.status))
    ELSE IF ~r.parses THEN Threw(JsonSyntaxError)
    ELSE IF ~CanRead(r.json) THEN Threw(NullOkTypeError)
    ELSE Returned(r.json)

\* the try block from the fetch's settling to the two throws: the parsed
\* body, or the Error thrown on the way
uploadTry(r) ==
    IF r.kind = "rejected" THEN Threw(r.message)
    ELSE IF ~ResponseOk(r)
    THEN Threw("Upload failed: " \o ToString(r.status))
    ELSE IF ~r.parses THEN Threw(JsonSyntaxError)
    ELSE IF ~CanRead(r.json) THEN Threw(NullOkTypeError)
    ELSE IF ~Truthy(Get(r.json, "ok"))
    THEN Threw(ToStr(Or(Get(r.json, "error"), Str("Upload failed"))))
    ELSE Returned(r.json)

UploadInstruction ==
    "Now type a message like \"hi\" to get the plan and proposed ds/y, then reply \"confirm\"."

\* storedDatasetId reading a key the backend does not send
storedDatasetId_WrongKey(data) == Get(data, "id")

\* the argument of setDatasetId
storedDatasetId(data) == Get(data, "dataset_id")

\* the success branch's two appends
uploadSuccessLog(prev, data, file) ==
    addBotMessage(
        addBotPreviewMessage(prev,
                             Or(Get(data, "filename"), Str(file)),
                             Get(data, "dataset_id"),
                             Or(Get(Get(data, "preview"), "head"), Arr(<<>>))),
        UploadInstruction, FALSE)

\* the catch block's append
uploadFailureLog(prev, msg) == addBotMessage(prev, "Upload error: " \o msg, TRUE)

\* from the fetch's settling with r to the end of the handler, for the
\* invocation that issued pending[i]
resumeFileUpload(i, r) ==
    LET file == pending[i].body.file
        try == uploadTry(r)
        msg == ErrMessage(try.message, "Failed to upload file.")
    IN  /\ pending' = RemoveAt(pending, i)
        /\ IF ~try.threw
           THEN /\ datasetId' = storedDatasetId(try.value)
                /\ fileName' = Or(Get(try.value, "filename"), Str(file))
                /\ messages' = uploadSuccessLog(messages, try.value, file)
                /\ UNCHANGED uploadError
           ELSE /\ uploadError' = msg
                /\ messages' = uploadFailureLog(messages, msg)
                /\ UNCHANGED <<datasetId, fileName>>
        /\ isLoading' = FALSE
        /\ pickerValue' = ""
        /\ UNCHANGED <<input, chatError>>

---------------------------------------------------------------------------
(* handleSend *)

ChatRequest(dataset_id, text) ==
    [url |-> "/chat",
     body |-> [dataset_id |-> dataset_id, message |-> text, show_code |-> FALSE]]

UploadFirst == "Please upload a CSV file first (above)."

\* handleSend without the `if (!datasetId)` rejection
handleSend_NoDatasetGuard ==
    /\ chatError' = ""
    /\ IF Trim(input) = ""
       THEN UNCHANGED <<messages, input, isLoading, pending>>
       ELSE /\ messages' = addUserMessage(messages, Trim(input))
            /\ input' = ""
            /\ isLoading' = TRUE
            /\ pending' = Append(pending, ChatRequest(datasetId, Trim(input)))
    /\ UNCHANGED <<datasetId, fileName, uploadError, pickerValue>>

\* handleSend appending the user's message before it tests datasetId
handleSend_AppendsBeforeGuard ==
    /\ chatError' = ""
    /\ IF Trim(input) = ""
       THEN UNCHANGED <<messages, input, isLoading, pending>>
       ELSE IF ~Truthy(datasetId)
       THEN /\ messages' = addBotMessage(addUserMessage(messages, Trim(input)),
                                         UploadFirst, TRUE)
            /\ input' = ""
            /\ UNCHANGED <<isLoading, pending>>
       ELSE /\ messages' = addUserMessage(messages, Trim(input))
            /\ input' = ""
            /\ isLoading' = TRUE
            /\ pending' = Append(pending, ChatRequest(datasetId, Trim(input)))
    /\ UNCHANGED <<datasetId, fileName, uploadError, pickerValue>>

\* handleSend testing the input for emptiness without trimming it
handleSend_NoTrim ==
    /\ chatError' = ""
    /\ IF input = ""
       THEN UNCHANGED <<messages, input, isLoading, pending>>
       ELSE IF ~Truthy(datasetId)
       THEN /\ messages' = addBotMessage(messages, UploadFirst, TRUE)
            /\ UNCHANGED <<input, isLoading, pending>>
       ELSE /\ messages' = addUserMessage(messages, Trim(input))
            /\ input' = ""
            /\ isLoading' = TRUE
            /\ pending' = Append(pending, ChatRequest(datasetId, Trim(input)))
    /\ UNCHANGED <<datasetId, fileName, uploadError, pickerValue>>

\* up to the await of fetch('/chat')
\* handleSend recording the missing-dataset rejection in the chat banner too
handleSend_BannerOnReject ==
    /\ IF Trim(input) = ""
       THEN /\ chatError' = ""
            /\ UNCHANGED <<messages, input, isLoading, pending>>
       ELSE IF ~Truthy(datasetId)
       THEN /\ chatError' = UploadFirst
            /\ messages' = addBotMessage(messages, UploadFirst, TRUE)
            /\ UNCHANGED <<input, isLoading, pending>>
       ELSE /\ chatError' = ""
            /\ messages' = addUserMessage(messages, Trim(input))
            /\ input' = ""
            /\ isLoading' = TRUE
            /\ pending' = Append(pending, ChatRequest(datasetId, Trim(input)))
    /\ UNCHANGED <<datasetId, fileName, uploadError, pickerValue>>

handleSend ==
    /\ chatError' = ""
    /\ IF Trim(input) = ""
       THEN UNCHANGED <<messages, input, isLoading, pending>>
       ELSE IF ~Truthy(datasetId)
       THEN /\ messages' = addBotMessage(messages, UploadFirst, TRUE)
            /\ UNCHANGED <<input, isLoading, pending>>
       ELSE /\ messages' = addUserMessage(messages, Trim(input))
            /\ input' = ""
            /\ isLoading' = TRUE
            /\ pending' = Append(pending, ChatRequest(datasetId, Trim(input)))
    /\ UNCHANGED <<datasetId, fileName, uploadError, pickerValue>>

chatTry(r) ==
    IF r.kind = "rejected" THEN Threw(r.message)
    ELSE IF ~ResponseOk(r)
    THEN Threw("Chat request failed: " \o ToString(r.status))
    ELSE IF ~r.parses THEN Threw(JsonSyntaxError)
    ELSE IF ~CanRead(r.json) THEN Threw(NullOkTypeError)
    ELSE IF ~Truthy(Get(r.json, "ok"))
    THEN Threw(ToStr(Or(Get(r.json, "error"), Str("Chat failed"))))
    ELSE Returned(r.json)

\* data.assistant_message || data.reply || data.message || ""
\* assistantTextOf preferring reply to assistant_message
assistantTextOf_ReplyFirst(data) ==
    Or(Or(Or(Get(data, "reply"), Get(data, "assistant_message")),
          Get(data, "message")),
       Str(""))

assistantTextOf(data) ==
    Or(Or(Or(Get(data, "assistant_message"), Get(data, "reply")),
          Get(data, "message")),
       Str(""))

resultsOf(data) == Or(Get(data, "results"), Null)

\* hasForecastTables looking at forecast_tail alone
hasForecastTables_TailOnly(results) ==
    /\ Truthy(results)
    /\ IsArray(Get(results, "forecast_tail"))

hasForecastTables(results) ==
    /\ Truthy(results)
    /\ \/ IsArray(Get(results, "forecast_head"))
       \/ IsArray(Get(results, "forecast_tail"))

\* the else branch's botMessageText
plainText(data) ==
    LET results == resultsOf(data)
        t0 == ToStr(assistantTextOf(data))
        t1 == IF Truthy(results)
              THEN t0 \o "\n\nResults:\n" \o Stringify(results, "")
              ELSE t0
        t2 == IF Truthy(Get(data, "error"))
              THEN t1 \o "\n\nError:\n" \o ToStr(Get(data, "error"))
              ELSE t1
    IN  IF Trim(t2) = "" THEN Stringify(data, "") ELSE t2

\* the success branch's append
chatSuccessLog(prev, data) ==
    IF hasForecastTables(resultsOf(data))
    THEN addBotForecastMessage(prev, assistantTextOf(data), resultsOf(data),
                               Bool(Truthy(Get(data, "error"))))
    ELSE addBotMessage(prev, plainText(data), Truthy(Get(data, "error")))

\* chatFailureLog without the isError argument
chatFailureLog_NotFlagged(prev, msg) == addBotMessage(prev, "Error: " \o msg, FALSE)

\* the catch block's append
chatFailureLog(prev, msg) == addBotMessage(prev, "Error: " \o msg, TRUE)

\* resumeSend clearing the loading flag at the end of the try block instead
\* of in a finally
resumeSend_NoFinally(i, r) ==
    LET try == chatTry(r)
        msg == ErrMessage(try.message,
                          "Sorry, something went wrong. Please try again.")
    IN  /\ pending' = RemoveAt(pending, i)
        /\ IF ~try.threw
           THEN /\ messages' = chatSuccessLog(messages, try.value)
                /\ isLoading' = FALSE
                /\ UNCHANGED chatError
           ELSE /\ chatError' = msg
                /\ messages' = chatFailureLog(messages, msg)
                /\ UNCHANGED isLoading
        /\ UNCHANGED <<input, datasetId, fileName, uploadError, pickerValue>>

\* from the fetch's settling with r to the end of the handler
resumeSend(i, r) ==
    LET try == chatTry(r)
        msg == ErrMessage(try.message,
                          "Sorry, something went wrong. Please try again.")
    IN  /\ pending' = RemoveAt(pending, i)
        /\ IF ~try.threw
           THEN /\ messages' = chatSuccessLog(messages, try.value)
                /\ UNCHANGED chatError
           ELSE /\ chatError' = msg
                /\ messages' = chatFailureLog(messages, msg)
        /\ isLoading' = FALSE
        /\ UNCHANGED <<input, datasetId, fileName, uploadError, pickerValue>>

---------------------------------------------------------------------------
(* The rendered controls *)

\* the file picker without its disabled attribute
FilePickerDisabled_Never == FALSE

\* <input type="file" disabled={isLoading}>
FilePickerDisabled == isLoading
\* <input type="text" disabled={isLoading || !datasetId}>
InputDisabled == isLoading \/ ~Truthy(datasetId)
\* <button type="submit" disabled={isLoading || !datasetId || !input.trim()}>
SendDisabled == isLoading \/ ~Truthy(datasetId) \/ Trim(input) = ""

---------------------------------------------------------------------------
(* Keeping the model finite *)

\* messages that the handlers in flight may still append
Reserved ==
    LET ups == {i \in 1..Len(pending) : pending[i].url = "/upload"}
    IN  Len(pending) + Cardinality(ups)

\* the log, with all that the handlers in flight may append, stays within
\* limit, and the fetches in flight within MaxPending
Fits(limit) ==
    /\ Len(messages) + Reserved <= limit
    /\ Len(pending) <= MaxPending

---------------------------------------------------------------------------
(* Steps: the user acting through the rendered controls *)

PickFile ==
    \E f \in Files \cup {NoFile} :
        /\ ~FilePickerDisabled
        /\ pickerValue' = f
        /\ handleFileUpload(f)
        /\ Fits(MaxMessages)'
        /\ UNCHANGED <<probe, shown>>

TypeInput ==
    \E s \in InputTexts :
        /\ ~InputDisabled
        /\ input' = s
        /\ UNCHANGED <<messages, isLoading, datasetId, fileName, uploadError,
                       chatError, pickerValue, pending, probe, shown>>

ClickSend ==
    /\ ~SendDisabled
    /\ handleSend
    /\ Fits(MaxMessages)'
    /\ UNCHANGED <<probe, shown>>

UploadSettles ==
    \E i \in 1..Len(pending), r \in UploadResponses :
        /\ pending[i].url = "/upload"
        /\ resumeFileUpload(i, r)
        /\ UNCHANGED <<probe, shown>>

ChatSettles ==
    \E i \in 1..Len(pending), r \in ChatResponses :
        /\ pending[i].url = "/chat"
        /\ resumeSend(i, r)
        /\ UNCHANGED <<probe, shown>>

Next == PickFile \/ TypeInput \/ ClickSend \/ UploadSettles \/ ChatSettles

Spec == Init /\ [][Next]_vars

---------------------------------------------------------------------------
(* Steps: events dispatched to the handlers whatever the controls' disabled *)
(* attributes say (form.requestSubmit(), a scripted change or submit event) *)

DispatchChange ==
    \E f \in Files \cup {NoFile} :
        /\ pickerValue' = f
        /\ handleFileUpload(f)
        /\ Fits(MaxDispatchMessages)'
        /\ UNCHANGED <<probe, shown>>

DispatchInput ==
    \E s \in InputTexts :
        /\ input' = s
        /\ UNCHANGED <<messages, isLoading, datasetId, fileName, uploadError,
                       chatError, pickerValue, pending, probe, shown>>

DispatchSubmit ==
    /\ handleSend
    /\ Fits(MaxDispatchMessages)'
    /\ UNCHANGED <<probe, shown>>

NextDispatch ==
    DispatchChange \/ DispatchInput \/ DispatchSubmit \/ UploadSettles \/ ChatSettles

SpecDispatch == Init /\ [][NextDispatch]_vars

---------------------------------------------------------------------------
(* cleanAssistantText, the header of a forecast message *)

cutMarkers ==
    << "Forecast (head):", "Forecast(head):", "Forecast head:",
       "Forecast (tail):", "Forecast(tail):", "Forecast tail:",
       "\nResults:", "Results:" >>

\* String.prototype.indexOf: the 0-based position of the first occurrence
\* of m in t, -1 when there is none
indexOf(t, m) ==
    LET At == {k \in 0..(Len(t) - Len(m)) : SubSeq(t, k + 1, k + Len(m)) = m}
    IN  IF At = {} THEN -1 ELSE CHOOSE k \in At : \A j \in At : k <= j

Min(a, b) == IF a <= b THEN a ELSE b

\* the value of idx once the loop has gone through the first n markers
RECURSIVE idxAfter(_, _)
idxAfter(t, n) ==
    IF n = 0 THEN -1
    ELSE LET idx == idxAfter(t, n - 1)
             i == indexOf(t, cutMarkers[n])
         IN  IF i # -1
             THEN (IF idx = -1 THEN i ELSE Min(idx, i))
             ELSE idx

\* the loop stopping at the first marker of the list that occurs in t
cutIndex_FirstListed(t) ==
    LET Found == {n \in 1..Len(cutMarkers) : indexOf(t, cutMarkers[n]) # -1}
    IN  IF Found = {} THEN -1
        ELSE indexOf(t, cutMarkers[CHOOSE n \in Found : \A j \in Found : n <= j])

\* idx after the loop over all the markers
cutIndex(t) == idxAfter(t, Len(cutMarkers))

HeaderFallback == "Forecast completed."

\* text is a JS value; the result is a string
cleanAssistantText(text) ==
    IF ~Truthy(text) THEN ""
    ELSE LET t0 == ToStr(text)
             idx == cutIndex(t0)
             t1 == IF idx # -1 THEN SubSeq(t0, 1, idx) ELSE t0
             t == Trim(t1)
         IN  IF t = "" THEN HeaderFallback ELSE t

\* the header <div> of a forecast message: rendered only for a non-empty
\* headerText
HeaderDisplayed(headerText) == headerText # ""

---------------------------------------------------------------------------
(* cleanAssistantText on its own: every assistant text built from at most *)
(* MaxPieces of the pieces below, as stored by addBotForecastMessage      *)

MaxPieces == 3

Pieces ==
    {cutMarkers[n] : n \in 1..Len(cutMarkers)}
        \cup {"", " ", "Plan ready.\n", " ...", "results:"}

RECURSIVE TextsOf(_)
TextsOf(n) ==
    IF n = 0 THEN {""}
    ELSE {t \o p : t \in TextsOf(n - 1), p \in Pieces}

AssistantTexts == {Or(Str(t), Str("")) : t \in TextsOf(MaxPieces)}

InitHeader ==
    /\ Mounted
    /\ probe \in AssistantTexts
    /\ shown = <<>>

\* the render of the forecast message calls cleanAssistantText(msg.assistantText)
renderHeader ==
    /\ shown = <<>>
    /\ shown' = <<cleanAssistantText(probe)>>
    /\ UNCHANGED <<cells, probe>>

SpecHeader == InitHeader /\ [][renderHeader]_vars

---------------------------------------------------------------------------
(* DataTable, the row table of the upload preview and of the forecast *)

\* Object.keys(r || {}) for a row that is an object or null: the row's own
\* keys in the row's own order, none for a null row
keysOf(r) ==
    IF Truthy(r) /\ r.t = "object"
    THEN [i \in 1..Len(r.e) |-> r.e[i].k]
    ELSE <<>>

\* forEach(k => colSet.add(k)) on an array in place of the Set
addKeys_NoSet(cols, keys) == cols \o keys

RECURSIVE addKeys(_, _)
\* forEach(k => colSet.add(k)): a Set keeps insertion order and ignores a
\* value it already holds
addKeys(cols, keys) ==
    IF keys = <<>> THEN cols
    ELSE LET k == Head(keys)
             seen == \E j \in 1..Len(cols) : cols[j] = k
         IN  addKeys(IF seen THEN cols ELSE Append(cols, k), Tail(keys))

RECURSIVE colSetAfter(_, _)
\* colSet once rows.forEach has gone through the first n rows
colSetAfter(rows, n) ==
    IF n = 0 THEN <<>>
    ELSE addKeys(colSetAfter(rows, n - 1), keysOf(rows[n]))

\* the text of the <td> of row r under column c
cellText(r, c) ==
    LET v == Get(r, c)
    IN  IF v.t \in {"null", "undefined"} THEN "" ELSE ToStr(v)

\* rows is a JS value; the result is null when nothing is rendered, else
\* the <th> texts and, per <tr>, the <td> texts
DataTable(rows) ==
    IF ~Truthy(rows) \/ ~IsArray(rows) \/ Len(rows.a) = 0 THEN Null
    ELSE LET columns == colSetAfter(rows.a, Len(rows.a))
         IN  [columns |-> columns,
              body |-> [i \in 1..Len(rows.a) |->
                          [j \in 1..Len(columns) |->
                              cellText(rows.a[i], columns[j])]]]

---------------------------------------------------------------------------
(* DataTable on its own: every array of at most MaxRows of the rows below *)

MaxRows == 3

RowValues ==
    { Obj(<<E("a", Num(1)), E("b", Num(2))>>),
      Obj(<<E("b", Num(3)), E("c", Num(4))>>),
      Obj(<<E("c", Str("x")), E("a", Null)>>),
      Obj(<<E("b", Bool(FALSE)), E("a", Str(""))>>),
      Obj(<<E("d", Obj(<<>>))>>),
      Obj(<<>>),
      Null }

RECURSIVE RowsOf(_)
RowsOf(n) ==
    IF n = 0 THEN {<<>>}
    ELSE RowsOf(n - 1) \cup {Append(rs, r) : rs \in RowsOf(n - 1), r \in RowValues}

InitTable ==
    /\ Mounted
    /\ probe \in {Arr(rs) : rs \in RowsOf(MaxRows)}
    /\ shown = <<>>

\* a message's render reaches <DataTable rows={...} />
renderTable ==
    /\ shown = <<>>
    /\ shown' = <<DataTable(probe)>>
    /\ UNCHANGED <<cells, probe>>

SpecTable == InitTable /\ [][renderTable]_vars

---------------------------------------------------------------------------
(* Vocabulary of the properties *)

IsPreview(m) == "kind" \in DOMAIN m /\ m.kind = "upload_preview"
IsForecast(m) == "kind" \in DOMAIN m /\ m.kind = "forecast"
IsPlain(m) == "kind" \notin DOMAIN m
IsErrorBot(m) == IsPlain(m) /\ m.sender = "bot" /\ "isError" \in DOMAIN m /\ m.isError

\* a response that is a successful upload or chat: HTTP 2xx whose body is
\* JSON with a truthy ok
Succeeds(r) ==
    /\ r.kind = "response"
    /\ r.status \in 200..299
    /\ r.parses
    /\ r.json.t = "object"
    /\ Truthy(Get(r.json, "ok"))

\* this step is the upload handler of pending[i] resuming with response r
UploadStep(i, r) == pending[i].url = "/upload" /\ resumeFileUpload(i, r)
\* this step is the chat handler of pending[i] resuming with response r
ChatStep(i, r) == pending[i].url = "/chat" /\ resumeSend(i, r)

\* this step issues a request to url
Issues(url) ==
    /\ Len(pending') = Len(pending) + 1
    /\ pending'[Len(pending')].url = url

\* the dataset_id of the latest upload_preview entry of the log, which
\* records the latest successful upload; null when there is none
LastUploadedId ==
    LET P == {j \in 1..Len(messages) : IsPreview(messages[j])}
    IN  IF P = {} THEN Null
        ELSE messages[CHOOSE j \in P : \A k \in P : k <= j].dataset_id

\* the entries the step appends to the log
Appended == SubSeq(messages', Len(messages) + 1, Len(messages'))
AppendsOnly == Len(messages') >= Len(messages)
                 /\ SubSeq(messages', 1, Len(messages)) = messages

---------------------------------------------------------------------------
\* C1: every /chat request in flight carries a dataset_id that is set
\* (truthy) and that an earlier successful upload returned (the log holds
\* its preview), and a /chat request is issued only while datasetId is set,
\* carrying that datasetId.
C1_ChatRequestsAuthorized ==
    /\ [](\A i \in 1..Len(pending) :
            pending[i].url = "/chat" =>
                /\ Truthy(pending[i].body.dataset_id)
                /\ \E j \in 1..Len(messages) :
                      /\ IsPreview(messages[j])
                      /\ messages[j].dataset_id = pending[i].body.dataset_id)
    /\ [][Issues("/chat") =>
            /\ Truthy(datasetId)
            /\ pending'[Len(pending')].body.dataset_id = datasetId]_vars

\* a chat request is in flight, issued under the id an upload returned
C1_Witness ==
    \E i \in 1..Len(pending) :
        /\ pending[i].url = "/chat"
        /\ pending[i].body = [dataset_id |-> Str("d2"), message |-> "hi",
                              show_code |-> FALSE]

\* C2: at most one request is outstanding, and while it is, the file
\* picker, the chat input and the send button are all disabled.
C2_AtMostOneOutstanding ==
    /\ Len(pending) <= 1
    /\ Len(pending) = 1 =>
          isLoading /\ FilePickerDisabled /\ InputDisabled /\ SendDisabled

C2_Witness ==
    /\ Len(pending) = 1
    /\ Truthy(datasetId)
    /\ Len(messages) >= 4

\* C3: datasetId always equals the dataset_id of the most recent successful
\* upload, and every chat request issued sends exactly that value.
C3_DatasetIdIsLatest ==
    /\ [](datasetId = LastUploadedId)
    /\ [][Issues("/chat") =>
            pending'[Len(pending')].body.dataset_id = LastUploadedId]_vars

\* two successful uploads returned different ids and a chat request is in
\* flight with the second one
C3_Witness ==
    /\ \E j, k \in 1..Len(messages) :
          /\ j < k
          /\ IsPreview(messages[j]) /\ IsPreview(messages[k])
          /\ messages[j].dataset_id # messages[k].dataset_id
          /\ messages[k].dataset_id = datasetId
    /\ \E i \in 1..Len(pending) :
          pending[i].url = "/chat" /\ pending[i].body.dataset_id = datasetId

\* C4: a step changes datasetId or fileName only if it is the resumption of
\* an upload with a successful response; a failed upload and every chat
\* step leave both as they were.
C4_OnlyUploadSuccessSetsDataset ==
    [][/\ (datasetId' # datasetId \/ fileName' # fileName) =>
              \E i \in 1..Len(pending), r \in UploadResponses :
                  UploadStep(i, r) /\ Succeeds(r)
       /\ \A i \in 1..Len(pending), r \in UploadResponses :
              UploadStep(i, r) /\ ~Succeeds(r) =>
                  UNCHANGED <<datasetId, fileName>>
       /\ \A i \in 1..Len(pending), r \in ChatResponses :
              ChatStep(i, r) => UNCHANGED <<datasetId, fileName>>]_vars

\* an upload failed with ok:false although its body named a dataset_id,
\* and the earlier upload's datasetId and fileName are still in place
C4_Witness ==
    /\ uploadError = "bad csv"
    /\ IsErrorBot(messages[Len(messages)])
    /\ datasetId = Str("d1")
    /\ fileName = Str("x.csv")

---------------------------------------------------------------------------
\* C5: a submit with non-blank input while datasetId is unset issues no
\* request and appends exactly one entry, an error-flagged bot message; it
\* appends no user message and leaves isLoading and the input as they were.
C5_RejectedWithoutDataset ==
    [][(handleSend /\ Trim(input) # "" /\ ~Truthy(datasetId)) =>
          /\ pending' = pending
          /\ AppendsOnly
          /\ Len(Appended) = 1
          /\ IsErrorBot(Appended[1])
          /\ \A k \in 1..Len(Appended) : Appended[k].sender # "user"
          /\ isLoading' = isLoading
          /\ input' = input]_vars

\* the rejection is the last entry, no upload ever succeeded, and the text
\* typed is still in the field
C5_Witness ==
    /\ messages[Len(messages)] =
          [sender |-> "bot", text |-> UploadFirst, isError |-> TRUE]
    /\ LastUploadedId = Null
    /\ datasetId = Null
    /\ input = " hi "
    /\ ~isLoading
    /\ pending = <<>>

\* C6: a submit with empty or whitespace-only input issues no request and
\* appends nothing, whether or not datasetId is set: the log, datasetId,
\* fileName, input, isLoading and the requests in flight are unchanged.
C6_BlankSubmitIsNoOp ==
    [][(handleSend /\ Trim(input) = "") =>
          UNCHANGED <<messages, datasetId, fileName, input, isLoading,
                      pending>>]_vars

\* a failed chat left its error entry last in the log and its reason in
\* the banner; the banner is empty again, nothing is in flight and no entry
\* followed: a submit of the whitespace-only input cleared the banner and
\* did nothing else
C6_Witness ==
    /\ messages[Len(messages)] =
          [sender |-> "bot", text |-> "Error: no model", isError |-> TRUE]
    /\ chatError = ""
    /\ input = "  "
    /\ Truthy(datasetId)
    /\ ~isLoading
    /\ pending = <<>>

---------------------------------------------------------------------------
\* C7: isLoading is true exactly while a request is outstanding; every
\* resumption of a handler clears it, whatever the response (an upload's
\* also resets the file picker); nothing else clears it; and while it is
\* set no further request is issued.
C7_LoadingWhileOutstanding ==
    /\ [](isLoading <=> Len(pending) > 0)
    /\ [][/\ \A i \in 1..Len(pending), r \in UploadResponses :
                UploadStep(i, r) => ~isLoading' /\ pickerValue' = ""
          /\ \A i \in 1..Len(pending), r \in ChatResponses :
                ChatStep(i, r) => ~isLoading'
          /\ (isLoading /\ ~isLoading') =>
                \/ \E i \in 1..Len(pending), r \in UploadResponses :
                      UploadStep(i, r)
                \/ \E i \in 1..Len(pending), r \in ChatResponses :
                      ChatStep(i, r)
          /\ isLoading => Len(pending') <= Len(pending)]_vars

\* a chat whose response body did not parse has completed: its reason is in
\* the banner and the loading flag is cleared
C7_Witness ==
    /\ chatError = JsonSyntaxError
    /\ IsErrorBot(messages[Len(messages)])
    /\ ~isLoading
    /\ pending = <<>>
    /\ pickerValue = ""

\* the rows a successful upload's preview shows: preview.head when it is an
\* array, no rows otherwise
ExpectedHeadRows(data) ==
    LET head == Get(Get(data, "preview"), "head")
    IN  IF head.t = "array" THEN head ELSE Arr(<<>>)

\* the file name a successful upload's preview shows: the returned one, the
\* local file's name when none is returned
ExpectedFileName(data, file) ==
    LET returned == Get(data, "filename")
    IN  IF returned.t = "string" /\ returned.s # "" THEN returned ELSE Str(file)

\* C8: a successful upload appends exactly two entries: the upload_preview
\* with the file name, the returned dataset_id and the head rows, then a
\* non-error bot instruction; the same step sets datasetId to the returned
\* dataset_id.
C8_UploadSuccessAppendsPreview ==
    [][\A i \in 1..Len(pending), r \in UploadResponses :
          (UploadStep(i, r) /\ Succeeds(r)) =>
              /\ AppendsOnly
              /\ Len(Appended) = 2
              /\ Appended[1] =
                    [sender |-> "bot", isError |-> FALSE,
                     kind |-> "upload_preview",
                     filename |-> ExpectedFileName(r.json, pending[i].body.file),
                     dataset_id |-> Get(r.json, "dataset_id"),
                     headRows |-> ExpectedHeadRows(r.json)]
              /\ Appended[2] =
                    [sender |-> "bot", text |-> UploadInstruction,
                     isError |-> FALSE]
              /\ datasetId' = Get(r.json, "dataset_id")]_vars

\* the log ends with the preview of an upload that returned no file name
\* and no rows, shown under the local file's name, and the instruction
C8_Witness ==
    /\ Len(messages) >= 3
    /\ messages[Len(messages) - 1] =
          [sender |-> "bot", isError |-> FALSE, kind |-> "upload_preview",
           filename |-> Str("a.csv"), dataset_id |-> Str("d2"),
           headRows |-> Arr(<<>>)]
    /\ messages[Len(messages)] =
          [sender |-> "bot", text |-> UploadInstruction, isError |-> FALSE]
    /\ datasetId = Str("d2")

\* the response's body is JSON whose results has a forecast_head
HasForecastHead(r) ==
    /\ r.kind = "response"
    /\ r.parses
    /\ Get(Get(r.json, "results"), "forecast_head") # Undefined

\* C9 as stated, read in the claim's favour as being about successful
\* responses: a successful chat response containing results.forecast_head
\* always appends a forecast entry.
C9_AsStated ==
    [][\A i \in 1..Len(pending), r \in ChatResponses :
          (ChatStep(i, r) /\ Succeeds(r) /\ HasForecastHead(r)) =>
              /\ Len(Appended) = 1
              /\ IsForecast(Appended[1])]_vars

\* C9, amended: a successful chat response (HTTP 2xx, ok truthy) whose
\* results.forecast_head is an array appends exactly one entry, of kind
\* forecast and not a plain-text one, whichever of assistant_message, reply
\* and message the response holds.
C9_ForecastHeadArrayRendersForecast ==
    [][\A i \in 1..Len(pending), r \in ChatResponses :
          (/\ ChatStep(i, r)
           /\ Succeeds(r)
           /\ Get(Get(r.json, "results"), "forecast_head").t = "array") =>
              /\ AppendsOnly
              /\ Len(Appended) = 1
              /\ IsForecast(Appended[1])
              /\ ~IsPlain(Appended[1])
              /\ Appended[1].results = Get(r.json, "results")]_vars

\* a forecast entry made from a response with forecast_head and none of
\* assistant_message, reply, message
C9_Witness ==
    /\ IsForecast(messages[Len(messages)])
    /\ messages[Len(messages)].assistantText = Str("")
    /\ Get(messages[Len(messages)].results, "forecast_head") = ForecastRows
    /\ Get(messages[Len(messages)].results, "forecast_tail") = Undefined

---------------------------------------------------------------------------
\* text holds sub as a substring
Contains(text, sub) ==
    \E k \in 1..(Len(text) - Len(sub) + 1) :
        SubSeq(text, k, k + Len(sub) - 1) = sub

\* the reason of a failed request, for the three failures the flows name:
\* the network error's message, the HTTP status behind the flow's prefix,
\* the error field of an ok:false body or the flow's default; "" for the
\* failures whose wording is the runtime's (an unparsable or a null body)
ExpectedReason(r, httpPrefix, rejectedDefault) ==
    IF r.kind = "rejected" THEN r.message
    ELSE IF r.status \notin 200..299 THEN httpPrefix \o ToString(r.status)
    ELSE IF r.parses /\ r.json.t = "object"
    THEN LET err == Get(r.json, "error")
         IN  IF err.t = "string" /\ err.s # "" THEN err.s ELSE rejectedDefault
    ELSE ""

\* the step appends exactly one entry, an error-flagged bot message whose
\* text holds the banner's text
AppendsErrorWith(banner) ==
    /\ AppendsOnly
    /\ Len(Appended) = 1
    /\ IsErrorBot(Appended[1])
    /\ banner # ""
    /\ Contains(Appended[1].text, banner)

\* C10: a failed upload puts its reason in uploadError, a failed chat in
\* chatError, and each appends exactly one error-flagged bot message whose
\* text holds that reason; the other flow's banner is untouched; a failed
\* chat's error entry follows the user's message; the handler runs to its
\* end (the request is settled and the loading flag cleared).
C10_FailureRecordedAndLogged ==
    [][/\ \A i \in 1..Len(pending), r \in UploadResponses :
              (UploadStep(i, r) /\ ~Succeeds(r)) =>
                  LET reason == ExpectedReason(r, "Upload failed: ", "Upload failed")
                  IN  /\ reason # "" => uploadError' = reason
                      /\ AppendsErrorWith(uploadError')
                      /\ chatError' = chatError
                      /\ pending' = RemoveAt(pending, i)
                      /\ ~isLoading'
       /\ \A i \in 1..Len(pending), r \in ChatResponses :
              (ChatStep(i, r) /\ ~Succeeds(r)) =>
                  LET reason == ExpectedReason(r, "Chat request failed: ", "Chat failed")
                  IN  /\ reason # "" => chatError' = reason
                      /\ AppendsErrorWith(chatError')
                      /\ uploadError' = uploadError
                      /\ messages[Len(messages)] =
                            [sender |-> "user", text |-> pending[i].body.message]
                      /\ pending' = RemoveAt(pending, i)
                      /\ ~isLoading']_vars

\* a chat failed with HTTP 500: the reason is in the chat banner and in the
\* error entry that follows the user's message
C10_Witness ==
    /\ Len(messages) >= 2
    /\ chatError = "Chat request failed: 500"
    /\ uploadError = ""
    /\ messages[Len(messages)] =
          [sender |-> "bot", text |-> "Error: Chat request failed: 500",
           isError |-> TRUE]
    /\ messages[Len(messages) - 1] = [sender |-> "user", text |-> "hi"]
    /\ ~isLoading

---------------------------------------------------------------------------
\* this step is a submit that handleSend rejects before any request: the
\* input is blank, or no dataset is set
LocalRejection == handleSend /\ (Trim(input) = "" \/ ~Truthy(datasetId))

\* C11 as stated: each of the five error classes, the local rejection of a
\* submit (blank input, missing dataset) among them, sets the banner of its
\* flow and appends one error-flagged bot message holding the banner's text.
C11_AsStated ==
    [][/\ \A i \in 1..Len(pending), r \in UploadResponses :
              (UploadStep(i, r) /\ ~Succeeds(r)) => AppendsErrorWith(uploadError')
       /\ \A i \in 1..Len(pending), r \in ChatResponses :
              (ChatStep(i, r) /\ ~Succeeds(r)) => AppendsErrorWith(chatError')
       /\ LocalRejection => AppendsErrorWith(chatError')]_vars

\* C11: the four request failures (upload or chat; transport/HTTP error or
\* a body the backend marks ok:false) each set the banner of their flow to a
\* non-empty string and append one error-flagged bot message holding it.
\* The local rejections do not: a submit without a dataset appends the
\* error-flagged "upload first" message and leaves the chat banner empty, a
\* blank submit leaves the chat banner empty and appends nothing.
C11_RequestFailuresSetBannerLocalRejectionsDoNot ==
    [][/\ \A i \in 1..Len(pending), r \in UploadResponses :
              (UploadStep(i, r) /\ ~Succeeds(r)) => AppendsErrorWith(uploadError')
       /\ \A i \in 1..Len(pending), r \in ChatResponses :
              (ChatStep(i, r) /\ ~Succeeds(r)) => AppendsErrorWith(chatError')
       /\ (handleSend /\ Trim(input) # "" /\ ~Truthy(datasetId)) =>
              /\ chatError' = ""
              /\ Appended = <<[sender |-> "bot", text |-> UploadFirst,
                               isError |-> TRUE]>>
       /\ (handleSend /\ Trim(input) = "") =>
              /\ chatError' = ""
              /\ messages' = messages]_vars

\* an upload failed and left its reason in the upload banner and in an
\* error entry; the submit that followed was rejected for the missing
\* dataset: its error entry is last in the log and the chat banner is empty
C11_Witness ==
    /\ Len(messages) >= 3
    /\ messages[Len(messages)] =
          [sender |-> "bot", text |-> UploadFirst, isError |-> TRUE]
    /\ IsErrorBot(messages[Len(messages) - 1])
    /\ uploadError # ""
    /\ Contains(messages[Len(messages) - 1].text, uploadError)
    /\ chatError = ""
    /\ ~Truthy(datasetId)

---------------------------------------------------------------------------
\* a field of the response counts as present when its value is truthy, as
\* `||` and `if (...)` read it: absent, null and "" are all not present
Present(data, key) == Truthy(Get(data, key))

\* the first present of assistant_message, reply, message, as text
FirstText(data) ==
    IF Present(data, "assistant_message") THEN ToStr(Get(data, "assistant_message"))
    ELSE IF Present(data, "reply") THEN ToStr(Get(data, "reply"))
    ELSE IF Present(data, "message") THEN ToStr(Get(data, "message"))
    ELSE ""

ResultsPart(data) ==
    IF Present(data, "results")
    THEN "\n\nResults:\n" \o Stringify(Get(data, "results"), "")
    ELSE ""

ErrorPart(data) ==
    IF Present(data, "error")
    THEN "\n\nError:\n" \o ToStr(Get(data, "error"))
    ELSE ""

\* C12: a successful chat response that is not appended as a forecast
\* message appends exactly one plain bot message; its text is the first
\* present of assistant_message, reply, message, then the dump of results
\* when present, then the error text when present, or the JSON dump of the
\* whole response when that text is blank; it is flagged isError exactly
\* when the response's error is present.
C12_PlainTextAssembled ==
    [][\A i \in 1..Len(pending), r \in ChatResponses :
          (ChatStep(i, r) /\ Succeeds(r)
              /\ ~IsForecast(messages'[Len(messages')])) =>
              LET data == r.json
                  assembled == FirstText(data) \o ResultsPart(data)
                                   \o ErrorPart(data)
              IN  /\ AppendsOnly
                  /\ Appended =
                        <<[sender |-> "bot",
                           text |-> IF Trim(assembled) = ""
                                    THEN Stringify(data, "") ELSE assembled,
                           isError |-> Present(data, "error")]>>]_vars

\* two chats were answered in plain text: one reply is the message followed
\* by the dump of results, the other, a response with nothing but ok, is
\* the dump of the whole response; neither is flagged
C12_Witness ==
    /\ \E j \in 1..Len(messages) :
          messages[j] =
              [sender |-> "bot",
               text |-> "note\n\nResults:\n{\n  \"forecast_head\": \"n/a\"\n}",
               isError |-> FALSE]
    /\ messages[Len(messages)] =
          [sender |-> "bot", text |-> "{\n  \"ok\": true\n}", isError |-> FALSE]

---------------------------------------------------------------------------
\* the positions (1-based) of t at which one of the markers starts
MarkerStarts(t) ==
    {k \in 1..Len(t) :
        \E n \in 1..Len(cutMarkers) :
            /\ k + Len(cutMarkers[n]) - 1 <= Len(t)
            /\ SubSeq(t, k, k + Len(cutMarkers[n]) - 1) = cutMarkers[n]}

\* t up to the earliest start of any marker, all of t when there is none,
\* without its surrounding whitespace
TrimmedBeforeMarkers(t) ==
    LET S == MarkerStarts(t)
    IN  IF S = {} THEN Trim(t)
        ELSE Trim(SubSeq(t, 1, (CHOOSE k \in S : \A j \in S : k <= j) - 1))

\* that, or the fallback when it is empty
HeaderOf(t) ==
    IF TrimmedBeforeMarkers(t) = "" THEN HeaderFallback
    ELSE TrimmedBeforeMarkers(t)

\* C13 as stated: for every assistant text of a forecast message, the empty
\* one included, cleanAssistantText returns the text cut at the earliest
\* marker and trimmed, or the fallback when that is empty, so the header is
\* never empty.
C13_AsStated ==
    shown # <<>> => /\ shown[1] = HeaderOf(probe.s)
                    /\ shown[1] # ""

\* C13: for every non-empty assistant text, cleanAssistantText returns the
\* text cut at the earliest occurrence of any of the eight markers and
\* trimmed, or "Forecast completed." when that is empty; for the empty text
\* (a forecast response without assistant_message, reply or message) it
\* returns the empty string, and the header is then not displayed; a header
\* that is displayed is never empty.
C13_HeaderOfNonEmptyText ==
    shown # <<>> =>
        /\ probe.s # "" => shown[1] = HeaderOf(probe.s)
        /\ probe.s = "" => shown[1] = ""
        /\ probe.s = "Plan ready.\nForecast (head): ..." => shown[1] = "Plan ready."
        /\ (\E n \in 1..Len(cutMarkers) : probe.s = cutMarkers[n]) =>
               shown[1] = HeaderFallback
        /\ HeaderDisplayed(shown[1]) <=> probe.s # ""

\* a text in which the marker listed last starts before the marker listed
\* first: the header is what precedes the earlier one
C13_Witness ==
    /\ probe = Str("Plan ready.\nResults:Forecast (head):")
    /\ shown = <<"Plan ready.">>

---------------------------------------------------------------------------
\* row r is an object that has key k
HasKey(r, k) == r.t = "object" /\ \E i \in 1..Len(r.e) : r.e[i].k = k

\* the keys of all the rows
KeysOfAll(rows) ==
    UNION {{rows[n].e[i].k : i \in 1..Len(rows[n].e)} :
              n \in {m \in 1..Len(rows) : rows[m].t = "object"}}

\* the first row that has key k, and k's place among that row's keys
FirstRowWith(rows, k) ==
    CHOOSE n \in 1..Len(rows) :
        HasKey(rows[n], k) /\ \A m \in 1..(n - 1) : ~HasKey(rows[m], k)
PlaceIn(r, k) == CHOOSE i \in 1..Len(r.e) : r.e[i].k = k

\* key k is seen before key l when the rows are scanned in order and each
\* row's keys in the row's order
SeenBefore(rows, k, l) ==
    LET n == FirstRowWith(rows, k)
        m == FirstRowWith(rows, l)
    IN  n < m \/ (n = m /\ PlaceIn(rows[n], k) < PlaceIn(rows[n], l))

ExampleRows ==
    Arr(<<Obj(<<E("a", Num(1)), E("b", Num(2))>>),
          Obj(<<E("b", Num(3)), E("c", Num(4))>>)>>)

ExampleTable ==
    [columns |-> <<"a", "b", "c">>,
     body |-> << <<"1", "2", "">>, <<"", "3", "4">> >>]

\* C14: for every non-empty array of rows, the table's columns are the keys
\* of all the rows, each once, in first-seen order; the table has one row
\* per input row, in order, and one cell per column; a cell is "" when the
\* row lacks the key or holds null or undefined under it, and the value as
\* a string otherwise.  For [{a:1,b:2},{b:3,c:4}] the columns are a, b, c
\* and the rows are 1, 2, "" and "", 3, 4.  For the empty array there is no
\* table.
C14_TableColumnsAndCells ==
    shown # <<>> =>
        LET rows == probe.a
            table == shown[1]
        IN  IF rows = <<>> THEN table = Null
            ELSE /\ {table.columns[j] : j \in 1..Len(table.columns)} = KeysOfAll(rows)
                 /\ \A i, j \in 1..Len(table.columns) :
                        i < j => /\ table.columns[i] # table.columns[j]
                                 /\ SeenBefore(rows, table.columns[i], table.columns[j])
                 /\ Len(table.body) = Len(rows)
                 /\ \A n \in 1..Len(rows) :
                        /\ Len(table.body[n]) = Len(table.columns)
                        /\ \A j \in 1..Len(table.columns) :
                              LET c == table.columns[j] IN
                              table.body[n][j] =
                                  IF ~HasKey(rows[n], c)
                                        \/ Get(rows[n], c).t \in {"null", "undefined"}
                                  THEN ""
                                  ELSE ToStr(Get(rows[n], c))
                 /\ probe = ExampleRows => table = ExampleTable

\* the table of the rows {a:1, b:2} and {b:3, c:4}
C14_Witness ==
    /\ probe = ExampleRows
    /\ shown = <<ExampleTable>>

---------------------------------------------------------------------------
\* C15: the greeting stays the first entry of the log, and every step of
\* every handler leaves the previous log as a prefix of the new one (no
\* entry removed, moved or changed); the step that issues a /chat request
\* appends the user's message, the one the request carries, and nothing
\* else; the step that resumes with the response appends one bot entry, the
\* reply or the error, to a log that already holds that user message.
C15_LogAppendOnly ==
    /\ [](messages[1] = Greeting)
    /\ [][/\ AppendsOnly
          /\ Issues("/chat") =>
                Appended = <<[sender |-> "user",
                              text |-> pending'[Len(pending')].body.message]>>
          /\ \A i \in 1..Len(pending), r \in ChatResponses :
                ChatStep(i, r) =>
                    /\ Len(Appended) = 1
                    /\ Appended[1].sender = "bot"
                    /\ \E j \in 1..Len(messages) :
                          messages[j] = [sender |-> "user",
                                         text |-> pending[i].body.message]]_vars

\* greeting, preview and instruction of an upload, the user's message and
\* then its reply, in that order, and nothing in flight
C15_Witness ==
    /\ Len(messages) = 5
    /\ messages[1] = Greeting
    /\ IsPreview(messages[2])
    /\ messages[4] = [sender |-> "user", text |-> "hi"]
    /\ messages[5] = [sender |-> "bot", text |-> "first", isError |-> FALSE]
    /\ pending = <<>>

---------------------------------------------------------------------------
\* C16 as stated: once datasetId is set, no step unsets it, whatever the
\* backend answers, and the chat input is usable whenever no request is
\* outstanding.
C16_AsStated ==
    [][Truthy(datasetId) =>
          /\ Truthy(datasetId')
          /\ pending' = <<>> => ~InputDisabled']_vars

====
